---- MODULE Spec2Model ----
(***************************************************************************)
(* Model of crates/cargo-contract/src/cmd/mod.rs: the hash parser          *)
(* (parse_code_hash), the dry-run reporter (display_contract_exec_result), *)
(* the extrinsic options (CLIExtrinsicOpts) and the confirmation gate      *)
(* (prompt_confirm_tx) together with the pre-submission workflow around it.*)
(*                                                                         *)
(* Strings are sequences of one-character strings, byte buffers are        *)
(* sequences of integers 0..255, Option<T> is <<>> (None) or <<v>> (Some). *)
(* A Result is a record with the field ok and the fields of both arms.     *)
(***************************************************************************)
EXTENDS Integers, Sequences, FiniteSets, TLC

VARIABLES
    \* ---- hash parser ----
    input,          \* the &str handed to parse_code_hash
    hashResult,     \* <<>> before the call, <<Result>> after it
    \* ---- dry-run reporter ----
    result,         \* the ContractResult: gas_consumed, gas_required, storage_deposit, debug_message
    stdout,         \* the rows name_value_println! has written, in order
    displayResult,  \* <<>> before the call, <<Result>> after it
    \* ---- options, workflow and confirmation gate ----
    args,           \* what the command line supplied
    opts,           \* <<>> or <<CLIExtrinsicOpts>>
    pc,             \* position of the command invocation
    dryRunDone,     \* the dry run was made and reported
    cmdError,       \* <<>> or <<the error the invocation ended with>>
    events,         \* what prompt_confirm_tx has done so far, in order
    gateState,      \* "idle", "AWAITING_INPUT" or "RESOLVED"
    buf,            \* the String read_line filled
    confirmResult,  \* <<>> before the gate returns, <<Result>> after
    submitted       \* the real extrinsic was submitted

vars == <<input, hashResult, result, stdout, displayResult,
          args, opts, pc, dryRunDone, cmdError, events, gateState, buf,
          confirmResult, submitted>>

hashVars == <<input, hashResult>>
displayVars == <<result, stdout, displayResult>>
txVars == <<args, opts, pc, dryRunDone, cmdError, events, gateState, buf,
            confirmResult, submitted>>

None == <<>>
Some(v) == <<v>>

(***************************************************************************)
(* Bounds of the model.                                                    *)
(***************************************************************************)
\* inputs of parse_code_hash have 0..MaxDelta hex characters, or 64 +- MaxDelta
MaxDelta == 2
\* the debug-message buffer has at most MaxDebugLen bytes
MaxDebugLen == 4
\* the line typed at the confirmation prompt has at most MaxLine characters
MaxLine == 3

(***************************************************************************)
(* Generic helpers.                                                        *)
(***************************************************************************)
SeqsUpTo(S, n) == UNION {[1..k -> S] : k \in 0..n}

Drop(s, n) == SubSeq(s, n + 1, Len(s))

IdleHash == input = <<>> /\ hashResult = None
IdleDisplay == result = [gas_consumed |-> 0, gas_required |-> 0, storage_deposit |-> 0,
                         debug_message |-> <<>>]
               /\ stdout = <<>> /\ displayResult = None
IdleTx == args = [file |-> None, manifest_path |-> None, url |-> None,
                  execute |-> FALSE, skip_dry_run |-> FALSE, skip_confirm |-> FALSE]
          /\ opts = None /\ pc = "idle" /\ dryRunDone = FALSE /\ cmdError = None
          /\ events = <<>> /\ gateState = "idle"
          /\ buf = <<>> /\ confirmResult = None /\ submitted = FALSE

(***************************************************************************)
(* HashParser: parse_code_hash.                                            *)
(***************************************************************************)
\* the length of <DefaultConfig as Config>::Hash, [u8; 32]
HashBytes == 32

HexValue ==
    "0" :> 0 @@ "1" :> 1 @@ "2" :> 2 @@ "3" :> 3 @@ "4" :> 4 @@ "5" :> 5 @@
    "6" :> 6 @@ "7" :> 7 @@ "8" :> 8 @@ "9" :> 9 @@
    "a" :> 10 @@ "b" :> 11 @@ "c" :> 12 @@ "d" :> 13 @@ "e" :> 14 @@ "f" :> 15 @@
    "A" :> 10 @@ "B" :> 11 @@ "C" :> 12 @@ "D" :> 13 @@ "E" :> 14 @@ "F" :> 15

IsHexChar(c) == c \in DOMAIN HexValue

\* contract_build::util::decode_hex: drops a leading "0x", then decodes pairs of
\* hex characters into bytes; a string that is no whole number of pairs, or
\* that holds a character outside [0-9a-fA-F], is an error and yields no bytes.
strip_0x(s) ==
    IF Len(s) >= 2 /\ s[1] = "0" /\ s[2] = "x" THEN Drop(s, 2) ELSE s

decode_hex(s) ==
    LET h == strip_0x(s) IN
    IF Len(h) % 2 # 0
    THEN [ok |-> FALSE, err |-> "OddLength", bytes |-> <<>>]
    ELSE IF \E i \in 1..Len(h) : ~IsHexChar(h[i])
    THEN [ok |-> FALSE, err |-> "InvalidHexCharacter", bytes |-> <<>>]
    ELSE [ok |-> TRUE, err |-> "",
          bytes |-> [i \in 1..(Len(h) \div 2) |->
                        HexValue[h[2 * i - 1]] * 16 + HexValue[h[2 * i]]]]

\* mutant: the length of the text is checked before it is decoded
parse_code_hash_len_first(s) ==
    LET h == strip_0x(s)
        r == decode_hex(s) IN
    IF Len(h) # 2 * HashBytes
    THEN [ok |-> FALSE, err |-> "WrongLength", hash |-> <<>>]
    ELSE IF ~r.ok
    THEN [ok |-> FALSE, err |-> "MalformedHex", hash |-> <<>>]
    ELSE [ok |-> TRUE, err |-> "", hash |-> r.bytes]

\* mutant: the 0x prefix is not accepted (the text is decoded as it stands)
parse_code_hash_no_prefix(s) ==
    IF \E i \in 1..Len(s) : ~IsHexChar(s[i])
    THEN [ok |-> FALSE, err |-> "MalformedHex", hash |-> <<>>]
    ELSE LET r == decode_hex(s) IN
         IF ~r.ok THEN [ok |-> FALSE, err |-> "MalformedHex", hash |-> <<>>]
         ELSE IF Len(r.bytes) # HashBytes
         THEN [ok |-> FALSE, err |-> "WrongLength", hash |-> <<>>]
         ELSE [ok |-> TRUE, err |-> "", hash |-> r.bytes]

\* mutant: a failed decoding is not propagated, the bytes decoded so far
\* (none) go on to the length check
parse_code_hash_swallow(s) ==
    LET r == decode_hex(s) IN
    IF Len(r.bytes) # HashBytes
    THEN [ok |-> FALSE, err |-> "WrongLength", hash |-> <<>>]
    ELSE [ok |-> TRUE, err |-> "", hash |-> r.bytes]

\* parse_code_hash: `decode_hex(input)?` returns the decoding error
\* (MalformedHex), then `bytes.len() != 32` bails (WrongLength), then the
\* bytes are copied into the [u8; 32].
parse_code_hash(s) ==
    LET r == decode_hex(s) IN
    IF ~r.ok
    THEN [ok |-> FALSE, err |-> "MalformedHex", hash |-> <<>>]
    ELSE IF Len(r.bytes) # HashBytes
    THEN [ok |-> FALSE, err |-> "WrongLength", hash |-> <<>>]
    ELSE [ok |-> TRUE, err |-> "", hash |-> [i \in 1..HashBytes |-> r.bytes[i]]]

\* The inputs tried: an optional prefix, then n copies of a hex character with
\* at most one position holding another character (hex or not).
HexLen == 2 * HashBytes
Lengths == (0..MaxDelta) \cup ((HexLen - MaxDelta)..(HexLen + MaxDelta))
Prefixes == {<<>>, <<"0", "x">>, <<"0", "x", "0", "x">>, <<"0", "X">>}
FillChars == {"0", "a", "F"}
OtherChars == {"9", "B", "g", "x", " "}

Body(n, c, p, d) == [i \in 1..n |-> IF i = p THEN d ELSE c]

HashInputs ==
    {pre \o Body(n, c, p, d) :
        pre \in Prefixes, n \in Lengths, c \in FillChars,
        p \in {0, 1, 2, HexLen - 1, HexLen, HexLen + 1}, d \in OtherChars}

InitHash ==
    /\ input \in HashInputs
    /\ hashResult = None
    /\ IdleDisplay /\ IdleTx

ParseCodeHash ==
    /\ hashResult = None
    /\ hashResult' = Some(parse_code_hash(input))
    /\ UNCHANGED <<input, displayVars, txVars>>

NextHash == ParseCodeHash

SpecHash == InitHash /\ [][NextHash]_vars

(***************************************************************************)
(* Claims about the hash parser (checked under SpecHash).                  *)
(***************************************************************************)
Parsed == hashResult # None
parsed == hashResult[1]

\* what the claims call the hex characters of the input: the input without
\* one optional leading 0x
AfterPrefix(s) ==
    IF Len(s) >= 2 /\ SubSeq(s, 1, 2) = <<"0", "x">> THEN SubSeq(s, 3, Len(s)) ELSE s
OnlyHex(s) == \A i \in 1..Len(AfterPrefix(s)) : AfterPrefix(s)[i] \in DOMAIN HexValue
HexCount(s) == Len(AfterPrefix(s))
PairValue(h, i) == HexValue[h[2 * i - 1]] * 16 + HexValue[h[2 * i]]

C4_NonHexIsMalformed ==
    (Parsed /\ ~OnlyHex(input))
        => (~parsed.ok /\ parsed.err = "MalformedHex" /\ parsed.hash = <<>>)

C4_Witness ==
    /\ Parsed /\ ~OnlyHex(input) /\ HexCount(input) = HexLen - 2
    /\ parsed.err = "MalformedHex" /\ parsed.hash = <<>>

\* C5: for every H of exactly 64 hexadecimal characters, parsing H and
\* parsing "0x" + H both succeed with the same 32 bytes, byte i being the
\* value of the i-th pair of hex characters of H.
C5_PrefixInsensitive ==
    (Parsed /\ OnlyHex(input) /\ HexCount(input) = 64)
        => LET H == AfterPrefix(input) IN
           /\ parsed.ok
           /\ Len(parsed.hash) = 32
           /\ \A i \in 1..32 : parsed.hash[i] = PairValue(H, i)
           /\ parse_code_hash(<<"0", "x">> \o H) = parsed
           /\ parse_code_hash(H) = parsed

C5_Witness ==
    /\ Parsed /\ Len(input) = 66 /\ SubSeq(input, 1, 2) = <<"0", "x">>
    /\ OnlyHex(input) /\ parsed.ok
    /\ parsed.hash[1] # parsed.hash[32]

(***************************************************************************)
(* DryRunReporter: display_contract_exec_result.                           *)
(***************************************************************************)
\* std::str::from_utf8: the buffer is well-formed UTF-8 (sequences of one to
\* four bytes, no overlong form, no surrogate, nothing above U+10FFFF).
Utf8Width(b) ==
    IF b < 128 THEN 1
    ELSE IF b >= 194 /\ b <= 223 THEN 2
    ELSE IF b >= 224 /\ b <= 239 THEN 3
    ELSE IF b >= 240 /\ b <= 244 THEN 4
    ELSE 0

Utf8SecondOk(lead, b) ==
    IF lead = 224 THEN b >= 160 /\ b <= 191
    ELSE IF lead = 237 THEN b >= 128 /\ b <= 159
    ELSE IF lead = 240 THEN b >= 144 /\ b <= 191
    ELSE IF lead = 244 THEN b >= 128 /\ b <= 143
    ELSE b >= 128 /\ b <= 191

RECURSIVE from_utf8_ok(_)
from_utf8_ok(s) ==
    IF s = <<>> THEN TRUE
    ELSE LET w == Utf8Width(s[1]) IN
         /\ w # 0
         /\ Len(s) >= w
         /\ w >= 2 => Utf8SecondOk(s[1], s[2])
         /\ \A i \in 3..w : s[i] >= 128 /\ s[i] <= 191
         /\ from_utf8_ok(Drop(s, w))

LF == 10
CR == 13

\* str::split_inclusive('\n'): the pieces, each ending with its line feed
RECURSIVE split_inclusive(_)
split_inclusive(s) ==
    IF s = <<>> THEN <<>>
    ELSE LET nl == {i \in 1..Len(s) : s[i] = LF} IN
         IF nl = {} THEN <<s>>
         ELSE LET i == CHOOSE j \in nl : \A k \in nl : j <= k IN
              <<SubSeq(s, 1, i)>> \o split_inclusive(Drop(s, i))

\* str::lines: each piece without its line feed, and without the carriage
\* return before that line feed
strip_line_ending(l) ==
    IF l # <<>> /\ l[Len(l)] = LF
    THEN LET m == SubSeq(l, 1, Len(l) - 1) IN
         IF m # <<>> /\ m[Len(m)] = CR THEN SubSeq(m, 1, Len(m) - 1) ELSE m
    ELSE l

lines(s) ==
    LET pieces == split_inclusive(s) IN
    [i \in 1..Len(pieces) |-> strip_line_ending(pieces[i])]

\* format!("{:?}", v)
fmt_debug(v) == <<"{:?}", v>>

\* name_value_println!(name, value, WIDTH): one row on stdout
Row(name, value) == [name |-> name, value |-> value]

STORAGE_DEPOSIT_KEY == "Storage Total Deposit"

NumericRows(r) ==
    << Row("Gas Consumed", fmt_debug(r.gas_consumed)),
       Row("Gas Required", fmt_debug(r.gas_required)),
       Row(STORAGE_DEPOSIT_KEY, fmt_debug(r.storage_deposit)) >>

\* lines 161-167: the first line has the key, the others the empty key
DebugRows(dbg) ==
    (IF dbg # <<>> THEN <<Row("Debug Message", dbg[1])>> ELSE <<>>)
    \o [i \in 1..(Len(dbg) - 1) |-> Row("", dbg[i + 1])]

\* mutant: every debug line has the key
DebugRowsAllKeyed(dbg) ==
    [i \in 1..Len(dbg) |-> Row("Debug Message", dbg[i])]

\* mutant: the numeric rows are printed before the buffer is decoded
display_rows_first(r) ==
    IF ~from_utf8_ok(r.debug_message)
    THEN [ok |-> FALSE, err |-> "InvalidDebugEncoding", rows |-> NumericRows(r)]
    ELSE [ok |-> TRUE, err |-> "",
          rows |-> NumericRows(r) \o DebugRows(lines(r.debug_message))]

\* mutant: the debug lines are printed with the key on each
display_all_keyed(r) ==
    IF ~from_utf8_ok(r.debug_message)
    THEN [ok |-> FALSE, err |-> "InvalidDebugEncoding", rows |-> <<>>]
    ELSE [ok |-> TRUE, err |-> "",
          rows |-> NumericRows(r) \o DebugRowsAllKeyed(lines(r.debug_message))]

\* display_contract_exec_result: the buffer is decoded first (lines 149-151,
\* the `?` returns "Error decoding UTF8 debug message bytes" before anything
\* is printed), then the three numeric rows, then the debug rows.
display_contract_exec_result(r) ==
    IF ~from_utf8_ok(r.debug_message)
    THEN [ok |-> FALSE, err |-> "InvalidDebugEncoding", rows |-> <<>>]
    ELSE [ok |-> TRUE, err |-> "",
          rows |-> NumericRows(r) \o DebugRows(lines(r.debug_message))]

\* bytes of the buffers tried: line feed, carriage return, 'a', 'b', the two
\* bytes of U+00E9, and a byte no UTF-8 text holds
DebugBytes == {LF, CR, 97, 98, 195, 169, 255}

InitDisplay ==
    /\ result \in [gas_consumed : {1, 2}, gas_required : {3}, storage_deposit : {4},
                   debug_message : SeqsUpTo(DebugBytes, MaxDebugLen)]
    /\ stdout = <<>>
    /\ displayResult = None
    /\ IdleHash /\ IdleTx

DisplayContractExecResult ==
    /\ displayResult = None
    /\ LET out == display_contract_exec_result(result) IN
       /\ stdout' = stdout \o out.rows
       /\ displayResult' = Some([ok |-> out.ok, err |-> out.err])
    /\ UNCHANGED <<result, hashVars, txVars>>

NextDisplay == DisplayContractExecResult

SpecDisplay == InitDisplay /\ [][NextDisplay]_vars

(***************************************************************************)
(* Claims about the dry-run reporter (checked under SpecDisplay).          *)
(***************************************************************************)
Displayed == displayResult # None
displayed == displayResult[1]

\* the number of lines of a text: one per line feed, and one more for text
\* after the last line feed
CountLines(s) ==
    Cardinality({i \in 1..Len(s) : s[i] = 10})
    + (IF s # <<>> /\ s[Len(s)] # 10 THEN 1 ELSE 0)

FixedRowsFirst ==
    /\ Len(stdout) >= 3
    /\ stdout[1] = [name |-> "Gas Consumed", value |-> <<"{:?}", result.gas_consumed>>]
    /\ stdout[2] = [name |-> "Gas Required", value |-> <<"{:?}", result.gas_required>>]
    /\ stdout[3] = [name |-> "Storage Total Deposit",
                    value |-> <<"{:?}", result.storage_deposit>>]

\* C6: for a buffer that is valid UTF-8 and has k lines, exactly 3 + k rows
\* are printed: Gas Consumed, Gas Required, Storage Total Deposit, then the k
\* debug lines in their order, the first under the key "Debug Message" and
\* the others under the empty key; an empty buffer gives the three rows only.
C6_RowsOfValidBuffer ==
    (Displayed /\ from_utf8_ok(result.debug_message))
        => LET k == CountLines(result.debug_message)
               dbg == lines(result.debug_message) IN
           /\ displayed.ok
           /\ Len(stdout) = 3 + k
           /\ FixedRowsFirst
           /\ \A i \in 1..k :
                 /\ stdout[3 + i].value = dbg[i]
                 /\ stdout[3 + i].name = (IF i = 1 THEN "Debug Message" ELSE "")
           /\ result.debug_message = <<>> => Len(stdout) = 3

C6_Witness ==
    /\ Displayed /\ displayed.ok
    /\ result.debug_message = <<97, 10, 98, 10>>
    /\ Len(stdout) = 5
    /\ stdout[4] = [name |-> "Debug Message", value |-> <<97>>]
    /\ stdout[5] = [name |-> "", value |-> <<98>>]

\* C10 (as stated): the three fixed rows are printed for every outcome, also
\* for one whose buffer is not valid UTF-8, whose failure is reported as
\* InvalidDebugEncoding after the rows, with no debug row.
C10_FixedRowsAlways ==
    Displayed =>
        /\ FixedRowsFirst
        /\ ~from_utf8_ok(result.debug_message)
              => (~displayed.ok /\ displayed.err = "InvalidDebugEncoding"
                  /\ Len(stdout) = 3)

\* C10 (amended): the three fixed rows are printed, in their order, for every
\* outcome whose buffer is valid UTF-8; the buffer is decoded before
\* anything is printed, and a buffer that is not valid UTF-8 is reported as
\* InvalidDebugEncoding with no row printed at all.
C10_FixedRowsIfValid ==
    Displayed =>
        IF from_utf8_ok(result.debug_message)
        THEN displayed.ok /\ FixedRowsFirst
        ELSE ~displayed.ok /\ displayed.err = "InvalidDebugEncoding" /\ stdout = <<>>

C10_Witness ==
    /\ Displayed
    /\ result.debug_message = <<97, 255>>
    /\ ~displayed.ok /\ displayed.err = "InvalidDebugEncoding" /\ stdout = <<>>

(***************************************************************************)
(* ExecutionOptions: CLIExtrinsicOpts, as the argument parser builds it.   *)
(***************************************************************************)
DEFAULT_URL == "ws://localhost:9944"

\* mutant: `file` without conflicts_with = "manifest_path"
parse_opts_no_conflict(a) ==
    [ok |-> TRUE, err |-> "",
     opts |-> Some([file |-> a.file, manifest_path |-> a.manifest_path,
                    url |-> IF a.url = None THEN DEFAULT_URL ELSE a.url[1],
                    execute |-> a.execute, skip_dry_run |-> a.skip_dry_run,
                    skip_confirm |-> a.skip_confirm])]

\* `file` conflicts with `manifest_path` (line 97): with both given no
\* CLIExtrinsicOpts is built; `url` has a default value (line 107); the flags
\* are false unless given.
parse_opts(a) ==
    IF a.file # None /\ a.manifest_path # None
    THEN [ok |-> FALSE, err |-> "ConflictingArtifactSource", opts |-> None]
    ELSE [ok |-> TRUE, err |-> "",
          opts |-> Some([file |-> a.file, manifest_path |-> a.manifest_path,
                         url |-> IF a.url = None THEN DEFAULT_URL ELSE a.url[1],
                         execute |-> a.execute, skip_dry_run |-> a.skip_dry_run,
                         skip_confirm |-> a.skip_confirm])]

(***************************************************************************)
(* ConfirmationGate: prompt_confirm_tx.                                    *)
(***************************************************************************)
\* char::is_whitespace, for the characters of the lines tried
IsWhitespace(c) == c \in {" ", "\n", "\t", "\r"}

RECURSIVE trim_start(_)
trim_start(s) ==
    IF s # <<>> /\ IsWhitespace(s[1]) THEN trim_start(Tail(s)) ELSE s

RECURSIVE trim_end(_)
trim_end(s) ==
    IF s # <<>> /\ IsWhitespace(s[Len(s)])
    THEN trim_end(SubSeq(s, 1, Len(s) - 1)) ELSE s

\* str::trim
trim(s) == trim_end(trim_start(s))

\* char::to_lowercase, for the characters of the lines tried
LowerOf == "Y" :> "y" @@ "N" :> "n" @@ "M" :> "m" @@ "A" :> "a"

\* str::to_lowercase
to_lowercase(s) ==
    [i \in 1..Len(s) |-> IF s[i] \in DOMAIN LowerOf THEN LowerOf[s[i]] ELSE s[i]]

\* mutant: the line is matched as typed, upper case not folded
confirm_match_case_sensitive(line) ==
    LET c == trim(line) IN
    IF c = <<"y">> \/ c = <<>> THEN [ok |-> TRUE, err |-> "", got |-> <<>>]
    ELSE IF c = <<"n">> THEN [ok |-> FALSE, err |-> "UserDeclined", got |-> <<>>]
    ELSE [ok |-> FALSE, err |-> "UnrecognizedConfirmationInput", got |-> c]

\* mutant: a declined confirmation is a normal return, not an error
confirm_match_declined_ok(line) ==
    LET c == to_lowercase(trim(line)) IN
    IF c = <<"y">> \/ c = <<>> THEN [ok |-> TRUE, err |-> "", got |-> <<>>]
    ELSE IF c = <<"n">> THEN [ok |-> TRUE, err |-> "UserDeclined", got |-> <<>>]
    ELSE [ok |-> FALSE, err |-> "UnrecognizedConfirmationInput", got |-> c]

\* mutant: the error message is cut off before the text
confirm_match_no_text(line) ==
    LET c == to_lowercase(trim(line)) IN
    IF c = <<"y">> \/ c = <<>> THEN [ok |-> TRUE, err |-> "", got |-> <<>>]
    ELSE IF c = <<"n">> THEN [ok |-> FALSE, err |-> "UserDeclined", got |-> <<>>]
    ELSE [ok |-> FALSE, err |-> "UnrecognizedConfirmationInput", got |-> <<>>]

\* lines 211-216: match buf.trim().to_lowercase().as_str()
\*   "y" | "" => Ok(())                                       Approved
\*   "n"      => Err("Transaction not submitted")             UserDeclined
\*   c        => Err("Expected either 'y' or 'n', got '{c}'") UnrecognizedConfirmationInput
confirm_match(line) ==
    LET c == to_lowercase(trim(line)) IN
    IF c = <<"y">> \/ c = <<>> THEN [ok |-> TRUE, err |-> "", got |-> <<>>]
    ELSE IF c = <<"n">> THEN [ok |-> FALSE, err |-> "UserDeclined", got |-> <<>>]
    ELSE [ok |-> FALSE, err |-> "UnrecognizedConfirmationInput", got |-> c]

\* the `?` of flush (line 209) and of read_line (line 210)
IoError == [ok |-> FALSE, err |-> "Io", got |-> <<>>]

\* mutant: the prompt is printed before the details are shown
enter_events_prompt_first == <<"header", "prompt", "show_details">>

\* lines 197-206: the header line, the caller's show_details(), the prompt
enter_events == <<"header", "show_details", "prompt">>

\* the lines typed: every text of at most MaxLine of these characters, and
\* the example of the specification with and without capitals
LineChars == {"y", "Y", "n", "m", " ", "\n"}
ExampleLines == { <<"m", "a", "y", "b", "e", "\n">>, <<"M", "a", "y", "b", "e", "\n">>,
                  <<"N", "\n">>, <<"\t", "y", "\r", "\n">> }
Lines == SeqsUpTo(LineChars, MaxLine) \cup ExampleLines

(***************************************************************************)
(* The command invocation: options, dry run, confirmation, submission.     *)
(***************************************************************************)
InitTx ==
    /\ args \in [file : {None, Some("flipper.contract")},
                 manifest_path : {None, Some("Cargo.toml")},
                 url : {None, Some("ws://node:9944")},
                 execute : BOOLEAN, skip_dry_run : BOOLEAN, skip_confirm : BOOLEAN]
    /\ opts = None
    /\ pc = "parse_args"
    /\ dryRunDone = FALSE
    /\ cmdError = None
    /\ events = <<>>
    /\ gateState = "idle"
    /\ buf = <<>>
    /\ confirmResult = None
    /\ submitted = FALSE
    /\ IdleHash /\ IdleDisplay

\* the argument parser builds the CLIExtrinsicOpts or reports the conflict
Construct ==
    /\ pc = "parse_args"
    /\ LET r == parse_opts(args) IN
       /\ opts' = r.opts
       /\ cmdError' = IF r.ok THEN None ELSE Some(r.err)
       /\ pc' = IF r.ok THEN "dry_run" ELSE "failed"
    /\ UNCHANGED <<args, dryRunDone, events, gateState, buf, confirmResult, submitted,
                   hashVars, displayVars>>

\* the dry run through the extrinsics service, and its report
DryRun ==
    /\ pc = "dry_run"
    /\ ~opts[1].skip_dry_run
    /\ dryRunDone' = TRUE
    /\ pc' = "decide"
    /\ UNCHANGED <<args, opts, cmdError, events, gateState, buf, confirmResult, submitted,
                   hashVars, displayVars>>

SkipDryRun ==
    /\ pc = "dry_run"
    /\ opts[1].skip_dry_run
    /\ pc' = "decide"
    /\ UNCHANGED <<args, opts, dryRunDone, cmdError, events, gateState, buf,
                   confirmResult, submitted, hashVars, displayVars>>

\* without --execute the call ends with display_dry_run_result_warning
NotExecuted ==
    /\ pc = "decide"
    /\ ~opts[1].execute
    /\ pc' = "done"
    /\ UNCHANGED <<args, opts, dryRunDone, cmdError, events, gateState, buf,
                   confirmResult, submitted, hashVars, displayVars>>

\* with --skip-confirm the caller does not call the gate
SkipConfirm ==
    /\ pc = "decide"
    /\ opts[1].execute /\ opts[1].skip_confirm
    /\ pc' = "submit"
    /\ UNCHANGED <<args, opts, dryRunDone, cmdError, events, gateState, buf,
                   confirmResult, submitted, hashVars, displayVars>>

\* prompt_confirm_tx, lines 197-209: header, show_details(), prompt, flush;
\* a failed flush returns its error, a successful one leaves the gate blocked
\* in read_line
GateEnter ==
    /\ pc = "decide"
    /\ opts[1].execute /\ ~opts[1].skip_confirm
    /\ \E flushed \in BOOLEAN :
          IF flushed
          THEN /\ events' = events \o enter_events \o <<"flush">>
               /\ gateState' = "AWAITING_INPUT"
               /\ confirmResult' = confirmResult
               /\ pc' = "read_line"
          ELSE /\ events' = events \o enter_events \o <<"flush_failed">>
               /\ gateState' = "RESOLVED"
               /\ confirmResult' = Some(IoError)
               /\ pc' = "gate_returned"
    /\ UNCHANGED <<args, opts, dryRunDone, cmdError, buf, submitted,
                   hashVars, displayVars>>

\* prompt_confirm_tx, lines 210-216: one read_line, then the match
GateRead ==
    /\ pc = "read_line"
    /\ \/ \E line \in Lines :
             /\ buf' = buf \o line
             /\ events' = events \o <<"read_line">>
             /\ confirmResult' = Some(confirm_match(buf \o line))
       \/ /\ buf' = buf
          /\ events' = events \o <<"read_line_failed">>
          /\ confirmResult' = Some(IoError)
    /\ gateState' = "RESOLVED"
    /\ pc' = "gate_returned"
    /\ UNCHANGED <<args, opts, dryRunDone, cmdError, submitted, hashVars, displayVars>>

\* the caller's `prompt_confirm_tx(...)?`: an Err ends the invocation
GateReturned ==
    /\ pc = "gate_returned"
    /\ IF confirmResult[1].ok
       THEN pc' = "submit" /\ cmdError' = cmdError
       ELSE pc' = "failed" /\ cmdError' = Some(confirmResult[1].err)
    /\ UNCHANGED <<args, opts, dryRunDone, events, gateState, buf, confirmResult,
                   submitted, hashVars, displayVars>>

\* the real extrinsic is submitted
Submit ==
    /\ pc = "submit"
    /\ submitted' = TRUE
    /\ pc' = "done"
    /\ UNCHANGED <<args, opts, dryRunDone, cmdError, events, gateState, buf,
                   confirmResult, hashVars, displayVars>>

NextTx ==
    \/ Construct
    \/ DryRun
    \/ SkipDryRun
    \/ NotExecuted
    \/ SkipConfirm
    \/ GateEnter
    \/ GateRead
    \/ GateReturned
    \/ Submit

SpecTx == InitTx /\ [][NextTx]_vars

(***************************************************************************)
(* Claims about the options, the workflow and the gate (under SpecTx).     *)
(***************************************************************************)
GateResolved == confirmResult # None
confirmed == confirmResult[1]
Approved == confirmed.ok /\ confirmed.err = ""
UserDeclined == ~confirmed.ok /\ confirmed.err = "UserDeclined"
Unrecognized == ~confirmed.ok /\ confirmed.err = "UnrecognizedConfirmationInput"
LineRead == GateResolved /\ events # <<>> /\ events[Len(events)] = "read_line"

\* a line that, trimmed and with case ignored, is the one letter of L: one
\* such letter and nothing but whitespace around it
Blank(s) == \A i \in 1..Len(s) : s[i] \in {" ", "\t", "\n", "\r"}
OnlyLetter(s, L) ==
    \E i \in 1..Len(s) :
        /\ s[i] \in L
        /\ \A j \in (1..Len(s)) \ {i} : s[j] \in {" ", "\t", "\n", "\r"}
NormYes(s) == Blank(s) \/ OnlyLetter(s, {"y", "Y"})
NormNo(s) == OnlyLetter(s, {"n", "N"})

\* C1: the gate resolves to Approved if and only if the line read, trimmed
\* and with case ignored, is empty or "y"; to UserDeclined exactly when it is
\* "n"; and to UnrecognizedConfirmationInput for every other line.
C1_GateVerdict ==
    GateResolved =>
        /\ Approved <=> (LineRead /\ NormYes(buf))
        /\ LineRead =>
              /\ UserDeclined <=> NormNo(buf)
              /\ Unrecognized <=> (~NormYes(buf) /\ ~NormNo(buf))

C1_Witness ==
    /\ LineRead /\ buf = <<"Y", "\n">> /\ Approved

\* C2: the real extrinsic is submitted only if execute is set and either
\* skip_confirm is set or the gate resolved to Approved; a gate that resolved
\* to UserDeclined or UnrecognizedConfirmationInput returned an error, the
\* invocation ends with that error and nothing is submitted.
C2_SubmitOnlyIfApproved ==
    /\ submitted =>
          /\ opts # None /\ opts[1].execute
          /\ opts[1].skip_confirm \/ (GateResolved /\ confirmed.err = "")
    /\ (GateResolved /\ confirmed.err \in {"UserDeclined", "UnrecognizedConfirmationInput"})
          => /\ ~confirmed.ok
             /\ ~submitted
             /\ pc \in {"gate_returned", "failed"}
             /\ pc = "failed" => cmdError = Some(confirmed.err)

C2_Witness ==
    /\ submitted /\ opts[1].execute /\ ~opts[1].skip_confirm
    /\ GateResolved /\ Approved /\ buf = <<"y", "\n">>

\* C7: with both an artifact file path and a manifest path the options are
\* not built and the error is ConflictingArtifactSource; with neither or
\* with one they are built; so the options built never have both set.
C7_ArtifactSourceExclusive ==
    /\ pc # "parse_args" =>
          IF args.file # <<>> /\ args.manifest_path # <<>>
          THEN opts = <<>> /\ pc = "failed"
               /\ cmdError = <<"ConflictingArtifactSource">>
          ELSE /\ opts # <<>>
               /\ opts[1].file = args.file
               /\ opts[1].manifest_path = args.manifest_path
    /\ opts # <<>> => (opts[1].file = <<>> \/ opts[1].manifest_path = <<>>)

C7_Witness ==
    /\ pc = "failed" /\ opts = <<>>
    /\ args.file # <<>> /\ args.manifest_path # <<>>
    /\ cmdError = <<"ConflictingArtifactSource">>

\* the line as typed, without its line terminator
RawText(s) ==
    IF s # <<>> /\ s[Len(s)] = "\n"
    THEN IF Len(s) >= 2 /\ s[Len(s) - 1] = "\r"
         THEN SubSeq(s, 1, Len(s) - 2) ELSE SubSeq(s, 1, Len(s) - 1)
    ELSE s

Folded(c) ==
    CASE c = "Y" -> "y" [] c = "N" -> "n" [] c = "M" -> "m" [] c = "A" -> "a"
      [] OTHER -> c

\* t is s without its surrounding whitespace and in lower case
IsNormalised(t, s) ==
    \E i \in 1..Len(s) : \E j \in i..Len(s) :
        /\ \A k \in (1..(i - 1)) \cup ((j + 1)..Len(s)) : s[k] \in {" ", "\t", "\n", "\r"}
        /\ s[i] \notin {" ", "\t", "\n", "\r"}
        /\ s[j] \notin {" ", "\t", "\n", "\r"}
        /\ Len(t) = j - i + 1
        /\ \A k \in 1..Len(t) : t[k] = Folded(s[i + k - 1])

\* C8 (as stated): when the gate resolves to UnrecognizedConfirmationInput,
\* the error carries the raw string the user entered.
C8_CarriesRawText ==
    (LineRead /\ Unrecognized) => confirmed.got = RawText(buf)

\* C8 (amended): when the gate resolves to UnrecognizedConfirmationInput, the
\* error carries the offending text as it was matched: the line entered,
\* trimmed of surrounding whitespace and in lower case.
C8_CarriesNormalisedText ==
    (GateResolved /\ Unrecognized) => (LineRead /\ IsNormalised(confirmed.got, buf))

C8_Witness ==
    /\ LineRead /\ Unrecognized
    /\ buf = <<"M", "a", "y", "b", "e", "\n">>
    /\ confirmed.got = <<"m", "a", "y", "b", "e">>

GateEvents == <<"header", "show_details", "prompt", "flush", "read_line">>

\* C9 (as stated): every invocation of the gate shows the details once, then
\* the prompt, flushes it, reads exactly one line and is then RESOLVED.
C9_AlwaysOneRead ==
    gateState = "RESOLVED" => events = GateEvents

\* C9 (amended): the gate's events come in a fixed order and at most once
\* each: show_details once before the prompt, the prompt flushed before the
\* single blocking read; when the flush and the read succeed exactly one
\* line is read, and when one of them fails the gate resolves at once with
\* the I/O error (after a failed flush nothing is read); RESOLVED is
\* terminal, with no second prompt and no second read, whatever the line.
C9_FixedOrderOnce ==
    /\ [](gateState = "idle" <=> events = <<>>)
    /\ [](gateState = "AWAITING_INPUT" <=> events = SubSeq(GateEvents, 1, 4))
    /\ [](gateState = "RESOLVED" =>
            /\ GateResolved
            /\ IF confirmed.err = "Io"
               THEN events \in { <<"header", "show_details", "prompt", "flush_failed">>,
                                 <<"header", "show_details", "prompt", "flush",
                                   "read_line_failed">> }
               ELSE events = GateEvents)
    /\ [][gateState = "RESOLVED"
            => UNCHANGED <<events, gateState, buf, confirmResult>>]_vars

C9_Witness ==
    /\ gateState = "RESOLVED" /\ events = GateEvents
    /\ Unrecognized /\ pc = "failed"

====
